---- MODULE Spec2Model ----
(***************************************************************************)
(* Slide-captcha challenge / ticket protocol of Edu_Mall_Go.               *)
(*                                                                         *)
(* The Redis key space, the Verify store wrapper (SetCaptchaKey,           *)
(* GetCaptchaKey, SetCaptchaTicket, GetCaptchaTicket) and the admin        *)
(* service (GetSlideCaptcha, CheckSlideCaptcha) are modelled at the        *)
(* granularity of one Redis command per step, because requests are served  *)
(* by concurrent goroutines and the Redis commands are the only points     *)
(* where they interact.                                                    *)
(***************************************************************************)
EXTENDS Integers, Sequences, FiniteSets, Bags, TLC

\* ---------------------------------------------------------------- bounds
NumProcs == 2      \* requests that can be in service at the same time
MaxIds   == 2      \* ids tools.UUIDHex can still hand out
MaxIdsVerify == 3  \* the same, when only the issue and verify endpoints are called
MaxUsers == 3      \* rows the admin_user table can hold
NumProcsLive == 1  \* requests in service at the same time while time keeps advancing

\* tools.UUIDHex(): a value never produced before; the n-th id generated is "u<n>"
UUIDHex(n) == "u" \o ToString(n)
Ids == {UUIDHex(i) : i \in 1..MaxIds}
AllIds == Ids \cup {UUIDHex(i) : i \in 1..MaxIdsVerify}

\* ------------------------------------------------------- program constants
ServerFullName == "edu.mall"
ChallengeTTL_Long == 3
ChallengeTTL   == 2          \* time.Minute*2
TicketTTL      == 5          \* time.Minute*5
Padding_Wide   == 6
Padding        == 5          \* slide.CheckPoint(..., 5)
IssueExpire    == 110        \* GetVerifyCaptchaResp.Expire, seconds
CheckExpire_Over == 310
CheckExpire    == 280        \* CheckCaptchaDtoResp.Expire, seconds

\* common.Errno codes
OK                == 200
ServerErr         == 500
ParamErr          == 400
AuthErr           == 401
DatabaseErr       == 10000
RedisErr          == 10001
UserNotFoundErr   == 11001
InvalidCaptchaErr == 11002

\* ------------------------------------------------------------- strings
\* A string is either the JSON text of a slide.Block (kind "json") or plain
\* text (kind "text") kept as its list of ':'-separated tokens; the empty
\* string is the text with no tokens.
Text(toks)   == [kind |-> "text", x |-> 0, y |-> 0, toks |-> toks]
EmptyString  == Text(<<>>)

\* json.Marshal(dotData): the JSON text of the block
Marshal(pt)  == [kind |-> "json", x |-> pt[1], y |-> pt[2], toks |-> <<>>]

\* json.Unmarshal([]byte(captData), &dot): fails unless the text is a JSON object
UnmarshalOk(s) == s.kind = "json"
Unmarshal(s)   == <<s.x, s.y>>

\* ids the callers can put in a request: a plain id, or "ticket:" + id
KeysOf(ids) == {<<i>> : i \in ids} \cup {<<"ticket", i>> : i \in ids}
CallerKeys == KeysOf(Ids)

fmtVerifyCaptchaKey(key)    == <<ServerFullName, "captcha">> \o key
fmtVerifyCaptchaTicket(key) == <<ServerFullName, "captcha", "ticket">> \o key

RedisKeys == {fmtVerifyCaptchaKey(k) : k \in KeysOf(AllIds)}
               \cup {fmtVerifyCaptchaTicket(k) : k \in KeysOf(AllIds)}

\* ---------------------------------------------------------- puzzle data
Solution  == <<100, 50>>
SolPoints == {Solution}
Offsets   == {<<5, -5>>, <<-5, 5>>, <<6, 0>>, <<-6, 0>>, <<0, 6>>, <<0, -6>>}
SubPoints == {<<Solution[1] + o[1], Solution[2] + o[2]>> : o \in Offsets}

\* a CheckPoint whose window starts at dx instead of dx-padding
CheckPoint_Lopsided(sx, sy, dx, dy, padding) ==
    /\ sx >= dx
    /\ sx <= dx + padding * 2
    /\ sy >= dy - padding
    /\ sy <= dy + padding

\* slide.CheckPoint(sx, sy, dx, dy, padding): the submitted point lies in the
\* square of side 2*padding whose corner is (dx-padding, dy-padding)
CheckPoint(sx, sy, dx, dy, padding) ==
    LET newX  == padding * 2
        newY  == padding * 2
        newDx == dx - padding
        newDy == dy - padding
    IN  /\ sx >= newDx
        /\ sx <= newDx + newX
        /\ sy >= newDy
        /\ sy <= newDy + newY

\* ------------------------------------------------------------------ Redis
\* a record: the value, the ttl it was stored with, the minutes it has been stored
NoRec == [val |-> EmptyString, ttl |-> 0, age |-> 0]
Rec(v, ttl) == [val |-> v, ttl |-> ttl, age |-> 0]

VARIABLES
    store,      \* Redis: the stored keys, each with its record
    nIds,       \* number of ids already produced by tools.UUIDHex
    inflight,   \* bag of the requests in service that are between two Redis commands
    lastRet,    \* the response returned to a caller by the step just taken (NoRet if none)
    judged,     \* challenge ids for which a CheckSlideCaptcha that read the record has returned
    db,         \* the admin_user table: the row with id i is db[i]
    web,        \* the HTTP exchange just served on a user route (NoWeb if none)
    minted      \* tickets returned to a caller less than 5 minutes ago: the ticket id t,
                \* the request key c it was returned for, its age, whether the
                \* store has answered a GetCaptchaTicket for it (tried) and whether
                \* one that read the record has returned (redeemed)

vars == <<store, nIds, inflight, lastRet, judged, minted, db, web>>
hist == <<judged, minted>>
captchaVars == <<store, nIds, inflight, lastRet, judged, minted>>
webVars     == <<db, web>>

\* SET key value EX ttl
RedisSet(s, k, v, ttl) == [j \in DOMAIN s \cup {k} |-> IF j = k THEN Rec(v, ttl) ELSE s[j]]
\* GET key (redis.Nil when the key is absent)
RedisHas(s, k) == k \in DOMAIN s
RedisGet(s, k) == IF k \in DOMAIN s THEN s[k] ELSE NoRec
\* DEL key
RedisDel(s, k) == [j \in DOMAIN s \ {k} |-> s[j]]
\* a store that never expires a record
Expire_Never(s) == s
\* one minute passes: a record is gone once its ttl has elapsed
Expire(s)      == [k \in {j \in DOMAIN s : s[j].age + 1 < s[j].ttl} |->
                     [s[k] EXCEPT !.age = @ + 1]]

\* a request in service: the position it has reached, its key, the value GET
\* returned, the submitted point once it has been read, and whether an earlier
\* request on the same key had already returned when this one began
Req(pc, key, got, after) ==
    [pc |-> pc, key |-> key, got |-> got, sx |-> 0, sy |-> 0, after |-> after]
One(r) == SetToBag({r})
Requests == BagToSet(inflight)
\* a response: st is "ok" when every Redis command of the request was answered,
\* "nil" when GET answered redis.Nil, "down" when a command returned an error;
\* key is the request key of a request whose GET returned a value, out the
\* result it carries, expire the seconds-remaining hint, dx and dy the distances
\* of the submitted point from the solution the request read
NoRet == [op |-> "none", key |-> <<>>, errno |-> OK, out |-> EmptyString, expire |-> 0,
          after |-> FALSE, owed |-> FALSE, dx |-> -1, dy |-> -1, st |-> "ok"]

Abs(n) == IF n < 0 THEN -n ELSE n

\* an HTTP exchange: the handler that ran ("none" when the middleware aborted),
\* the users the middleware put in the context, the HTTP status, the Errno code
\* of the body, the id looked up in admin_user (0 if none) and the data returned
NoData == [UserID |-> 0, Name |-> ""]
NoWeb  == [path |-> <<>>, token |-> "", handler |-> "none", admin |-> <<>>, customer |-> <<>>,
           status |-> 0, code |-> 0, lookup |-> 0, data |-> NoData]

Init ==
    /\ store    = [k \in {} |-> NoRec]
    /\ nIds     = 0
    /\ inflight = EmptyBag
    /\ lastRet  = NoRet
    /\ judged   = {}
    /\ minted   = {}
    /\ db       = <<>>
    /\ web      = NoWeb

\* a request can be taken into service
Free == BagCardinality(inflight) < NumProcs

\* tools.UUIDHex still has an id for one more caller besides the requests that
\* have passed the comparison and are about to draw their ticket id
Waiting  == {r \in Requests : r.pc = "chk_set"}
Reserved == IF Waiting = {} THEN 0
            ELSE BagCardinality([r \in Waiting |-> CopiesIn(r, inflight)])
IdLeft(cap) == nIds + Reserved < cap

\* ------------------------------------------------------- GetSlideCaptcha
\* SetCaptchaKey
SetCaptchaKey(s, key, value, expire) ==
    RedisSet(s, fmtVerifyCaptchaKey(key), value, expire)

\* the first step of GetSlideCaptcha that fails, or "ok"
IssueOutcomes == {"generate", "nildata", "marshal", "image", "set", "ok"}

\* a SetCaptchaKey that wrote the record although the request fails
SetApplied_OnError(outcome) == outcome \in {"set", "ok"}

\* the record is written when SetCaptchaKey returns no error, which is the last
\* step that can fail
SetApplied(outcome) == outcome = "ok"

GetSlideCaptcha(cap) ==
    /\ Free
    /\ \E outcome \in IssueOutcomes, pt \in SolPoints :
         IF outcome \in {"generate", "nildata", "marshal", "image"}
         THEN /\ lastRet' = [NoRet EXCEPT !.op = "issue", !.errno = ServerErr]
              /\ UNCHANGED <<store, nIds>>
         ELSE LET key == UUIDHex(nIds + 1)
              IN  /\ IdLeft(cap)
                  /\ nIds' = nIds + 1
                  /\ store' = IF SetApplied(outcome)
                              THEN SetCaptchaKey(store, <<key>>, Marshal(pt), ChallengeTTL)
                              ELSE store
                  /\ lastRet' = IF outcome = "ok"
                                THEN [NoRet EXCEPT !.op = "issue", !.errno = OK,
                                                   !.key = <<key>>, !.out = Text(<<key>>),
                                                   !.expire = IssueExpire]
                                ELSE [NoRet EXCEPT !.op = "issue", !.errno = RedisErr,
                                                   !.st = "down"]
    /\ UNCHANGED <<inflight, hist>>
    /\ UNCHANGED webVars

\* ----------------------------------------------------- CheckSlideCaptcha
\* The response of the request r
Ret(op, r, errno, out, st) ==
    [NoRet EXCEPT !.op = op, !.key = IF r.pc \in {"chk_get", "tk_get"} THEN <<>> ELSE r.key,
                  !.errno = errno, !.out = out,
                  !.after = (op = "check" /\ r.after),
                  !.st = st,
                  !.dx = IF op = "check" /\ UnmarshalOk(r.got)
                         THEN Abs(r.sx - Unmarshal(r.got)[1]) ELSE -1,
                  !.dy = IF op = "check" /\ UnmarshalOk(r.got)
                         THEN Abs(r.sy - Unmarshal(r.got)[2]) ELSE -1]

\* GetCaptchaKey, first command: v.redis.Get(redisKey).Result(); a Redis error and
\* redis.Nil both come back as err and CheckSlideCaptcha answers RedisErr
CheckSlideCaptcha_Get(keys) ==
    /\ Free
    /\ \/ \E key \in keys :
            LET redisKey == fmtVerifyCaptchaKey(key)
                after    == key \in judged
            IN  IF RedisHas(store, redisKey)
                THEN /\ inflight' = inflight (+)
                                      One(Req("chk_del", key, RedisGet(store, redisKey).val, after))
                     /\ lastRet' = NoRet
                ELSE /\ lastRet' = Ret("check", Req("chk_get", key, EmptyString, after),
                                       RedisErr, EmptyString, "nil")
                     /\ UNCHANGED inflight
       \/ /\ lastRet' = Ret("check", Req("chk_get", <<>>, EmptyString, FALSE),
                             RedisErr, EmptyString, "down")
          /\ UNCHANGED inflight
    /\ UNCHANGED <<store, nIds, hist>>
    /\ UNCHANGED webVars

\* a key that is a bare generated id names a challenge
Judge(j, key) == IF Len(key) = 1 THEN j \cup {key} ELSE j

\* GetCaptchaKey, second command: v.redis.Del(redisKey), result ignored; then
\* CheckSlideCaptcha up to the ticket write.  req.SlideX and req.SlideY are first
\* read here, so the submitted point is drawn here.
CheckSlideCaptcha_Del(cap) ==
    /\ \E q \in Requests, up \in BOOLEAN, sub \in SubPoints :
         LET r        == [q EXCEPT !.sx = sub[1], !.sy = sub[2]]
             captData == r.got
             dot      == Unmarshal(captData)
             fail(errno) ==
                 /\ lastRet' = Ret("check", r, errno, EmptyString, "ok")
                 /\ inflight' = inflight (-) One(q)
                 /\ judged' = Judge(judged, r.key)
         IN  /\ q.pc = "chk_del"
             /\ store' = IF up THEN RedisDel(store, fmtVerifyCaptchaKey(r.key)) ELSE store
             /\ IF captData = EmptyString THEN fail(ParamErr)
                ELSE IF ~UnmarshalOk(captData) THEN fail(InvalidCaptchaErr)
                ELSE IF ~CheckPoint(r.sx, r.sy, dot[1], dot[2], Padding)
                     THEN fail(InvalidCaptchaErr)
                ELSE /\ IdLeft(cap)
                     /\ inflight' = (inflight (-) One(q)) (+) One([r EXCEPT !.pc = "chk_set"])
                     /\ lastRet' = NoRet
                     /\ UNCHANGED judged
    /\ UNCHANGED <<nIds, minted>>
    /\ UNCHANGED webVars

\* SetCaptchaTicket
SetCaptchaTicket(s, key, value, expire) ==
    RedisSet(s, fmtVerifyCaptchaTicket(key), value, expire)

\* ticket := tools.UUIDHex(); SetCaptchaTicket(ctx, ticket, req.Key, 5 min)
CheckSlideCaptcha_Set(cap) ==
    /\ \E r \in Requests, up \in BOOLEAN :
         LET ticket == UUIDHex(nIds + 1)
         IN  /\ r.pc = "chk_set"
             /\ nIds < cap
             /\ nIds' = nIds + 1
             /\ IF up
                THEN /\ store' = SetCaptchaTicket(store, <<ticket>>, Text(r.key), TicketTTL)
                     /\ lastRet' = [Ret("check", r, OK, Text(<<ticket>>), "ok")
                                      EXCEPT !.expire = CheckExpire]
                     /\ minted' = minted \cup {[t |-> <<ticket>>, c |-> r.key, age |-> 0,
                                                 tried |-> FALSE, redeemed |-> FALSE]}
                ELSE /\ lastRet' = Ret("check", r, RedisErr, EmptyString, "down")
                     /\ UNCHANGED <<store, minted>>
             /\ judged' = Judge(judged, r.key)
             /\ inflight' = inflight (-) One(r)
    /\ UNCHANGED webVars

\* ------------------------------------------------------ GetCaptchaTicket
\* first command: v.redis.Get(redisKey).Result()
GetCaptchaTicket_Get ==
    /\ Free
    /\ \/ \E key \in CallerKeys :
            LET redisKey == fmtVerifyCaptchaTicket(key)
                after    == \E m \in minted : m.t = key /\ m.redeemed
            IN  /\ minted' = {IF m.t = key THEN [m EXCEPT !.tried = TRUE] ELSE m : m \in minted}
                /\ IF RedisHas(store, redisKey)
                   THEN /\ inflight' = inflight (+)
                                         One(Req("tk_del", key, RedisGet(store, redisKey).val, after))
                        /\ lastRet' = NoRet
                   ELSE /\ lastRet' = [Ret("redeem", Req("tk_get", key, EmptyString, after),
                                           RedisErr, EmptyString, "nil")
                                         EXCEPT !.owed = (\E m \in minted : m.t = key /\ ~m.tried)]
                        /\ UNCHANGED inflight
       \/ /\ lastRet' = Ret("redeem", Req("tk_get", <<>>, EmptyString, FALSE),
                             RedisErr, EmptyString, "down")
          /\ UNCHANGED <<inflight, minted>>
    /\ UNCHANGED <<store, nIds, judged>>
    /\ UNCHANGED webVars

\* second command: v.redis.Del(redisKey), result ignored; return get, nil
GetCaptchaTicket_Del ==
    /\ \E r \in Requests, up \in BOOLEAN :
         /\ r.pc = "tk_del"
         /\ store' = IF up THEN RedisDel(store, fmtVerifyCaptchaTicket(r.key)) ELSE store
         /\ lastRet' = Ret("redeem", r, OK, r.got, "ok")
         /\ minted' = {IF m.t = r.key THEN [m EXCEPT !.redeemed = TRUE] ELSE m : m \in minted}
         /\ inflight' = inflight (-) One(r)
    /\ UNCHANGED <<nIds, judged>>
    /\ UNCHANGED webVars

\* ------------------------------------------------------------------ time
\* one minute passes; lastRet notes a key that Redis expired in this minute
Tick ==
    /\ store' = Expire(store)
    /\ minted' = {[m EXCEPT !.age = @ + 1] : m \in {n \in minted : n.age + 1 < TicketTTL}}
    /\ LET gone == {k \in DOMAIN store : ~RedisHas(Expire(store), k)}
       IN  lastRet' = IF gone = {} THEN NoRet
                      ELSE [NoRet EXCEPT !.op = "expire", !.key = CHOOSE k \in gone : TRUE]
    /\ UNCHANGED <<nIds, inflight, judged>>
    /\ UNCHANGED webVars

\* ------------------------------------------------------------ HTTP layer
rootPath == <<"api", "mall">>
StatusOK           == 200
StatusUnauthorized == 401

AdminAuthWhiteList ==
    { <<"ping">>, <<"metrics">>,
      <<"admin", "v1", "user", "verify", "captcha", "check">>,
      <<"admin", "v1", "user", "verify", "captcha">>,
      <<"admin", "v1", "user", "verify", "smscode">>,
      <<"admin", "v1", "user", "mobile", "verify_login">>,
      <<"admin", "v1", "user", "mobile", "password_login">>,
      <<"admin", "v1", "user", "password", "reset">> }

\* strings.Replace(path, r.rootPath, "", 1): the first occurrence is removed
Replace1(path, old) ==
    LET hits == {i \in 1..(Len(path) - Len(old) + 1) :
                    SubSeq(path, i, i + Len(old) - 1) = old}
    IN  IF hits = {} THEN path
        ELSE LET i == CHOOSE j \in hits : \A k \in hits : j <= k
             IN  SubSeq(path, 1, i - 1) \o SubSeq(path, i + Len(old), Len(path))

\* TRUE when the request must be authenticated
SpanFilter(urlPath) == Replace1(urlPath, rootPath) \notin AdminAuthWhiteList

\* the token parsers wired by adminRoute and customerRoute: they never fail
StubAdminUserID == 1
AdminTokenFun(token) == [UserID |-> StubAdminUserID, Name |-> "admin"]
TokenFun(token)      == [UserID |-> 0, Name |-> ""]

\* an AdminAuthMiddleware that lets a request without token through
AdminAuthMiddleware_Open(urlPath, token) ==
    LET w == [NoWeb EXCEPT !.path = urlPath, !.token = token]
    IN  IF ~SpanFilter(urlPath) \/ Len(token) = 0 THEN [w EXCEPT !.handler = "next"]
        ELSE [w EXCEPT !.handler = "next", !.admin = <<AdminTokenFun(token)>>]

\* AdminAuthMiddleware: the exchange after the middleware, handler "none" when
\* it aborted with 401 and "next" when it called ctx.Next()
AdminAuthMiddleware(urlPath, token) ==
    LET w == [NoWeb EXCEPT !.path = urlPath, !.token = token]
    IN  IF ~SpanFilter(urlPath) THEN [w EXCEPT !.handler = "next"]
        ELSE IF Len(token) = 0
             THEN [w EXCEPT !.status = StatusUnauthorized, !.code = AuthErr]
        ELSE [w EXCEPT !.handler = "next", !.admin = <<AdminTokenFun(token)>>]

\* AuthMiddleware
AuthMiddleware(urlPath, token) ==
    LET w == [NoWeb EXCEPT !.path = urlPath, !.token = token]
    IN  IF ~SpanFilter(urlPath) THEN [w EXCEPT !.handler = "next"]
        ELSE IF Len(token) = 0
             THEN [w EXCEPT !.status = StatusUnauthorized, !.code = AuthErr]
        ELSE [w EXCEPT !.handler = "next", !.customer = <<TokenFun(token)>>]

\* api.GetAdminUserFromCtx
GetAdminUserFromCtx(w) == w.admin

\* api.WriteResp: always HTTP 200, the Errno code goes in the body
WriteResp(w, handler, data, errno) ==
    [w EXCEPT !.handler = handler, !.status = StatusOK, !.code = errno, !.data = data]

Tokens == {"", "t"}
Names  == {"admin", "bob"}

\* repo AdminUser.GetUserInfo: Where(ID = userId).First()
RepoGetUserInfo(table, userId) ==
    IF userId \in 1..Len(table) THEN <<[UserID |-> userId, Name |-> table[userId]]>> ELSE <<>>

\* an id other than the one Service.GetUserInfo queries
InfoUserID_Other == 2
\* the id Service.GetUserInfo queries
InfoUserID == 1

\* Service.GetUserInfo(ctx, adminUser): the answer [code, lookup, data]
ServiceGetUserInfo(table, adminUser, dbUp) ==
    LET user == RepoGetUserInfo(table, InfoUserID)
    IN  IF ~dbUp THEN [code |-> DatabaseErr, lookup |-> InfoUserID, data |-> NoData]
        ELSE IF user = <<>>
             THEN [code |-> UserNotFoundErr, lookup |-> InfoUserID, data |-> NoData]
        ELSE [code |-> OK, lookup |-> InfoUserID,
              data |-> [UserID |-> user[1].UserID, Name |-> user[1].Name]]

\* Ctrl.GetUserInfo
CtrlGetUserInfo(w, dbUp) ==
    LET user == GetAdminUserFromCtx(w)
    IN  IF user = <<>> THEN WriteResp(w, "GetUserInfo", NoData, AuthErr)
        ELSE LET resp == ServiceGetUserInfo(db, [UserID |-> 0, Name |-> ""], dbUp)
             IN  [WriteResp(w, "GetUserInfo", resp.data, resp.code) EXCEPT !.lookup = resp.lookup]

\* GET /api/mall/admin/v1/user/verify/captcha, up to the call of the service:
\* the middleware, then Ctrl.GetSmsCodeCaptcha, which answers ParamErr when
\* BindQuery fails and otherwise calls Service.GetSlideCaptcha, whose step is
\* GetSlideCaptcha and whose result it writes
AdminGetCaptcha ==
    /\ \E token \in Tokens, bind \in BOOLEAN :
         LET w == AdminAuthMiddleware(rootPath \o <<"admin", "v1", "user", "verify", "captcha">>,
                                      token)
         IN  web' = IF w.handler = "none" THEN w
                    ELSE IF ~bind THEN WriteResp(w, "GetSmsCodeCaptcha", NoData, ParamErr)
                    ELSE [w EXCEPT !.handler = "GetSmsCodeCaptcha"]
    /\ UNCHANGED db
    /\ UNCHANGED captchaVars

\* POST /api/mall/admin/v1/user/verify/captcha/check, up to the call of the
\* service: the middleware, then Ctrl.CheckSmsCodeCaptcha, which answers ParamErr
\* when BindJSON fails and otherwise calls Service.CheckSlideCaptcha, whose steps
\* are CheckSlideCaptcha_Get, _Del and _Set and whose result it writes
AdminCheckCaptcha ==
    /\ \E token \in Tokens, bind \in BOOLEAN :
         LET w == AdminAuthMiddleware(
                      rootPath \o <<"admin", "v1", "user", "verify", "captcha", "check">>, token)
         IN  web' = IF w.handler = "none" THEN w
                    ELSE IF ~bind THEN WriteResp(w, "CheckSmsCodeCaptcha", NoData, ParamErr)
                    ELSE [w EXCEPT !.handler = "CheckSmsCodeCaptcha"]
    /\ UNCHANGED db
    /\ UNCHANGED captchaVars

\* GET /api/mall/admin/v1/user/info
AdminUserInfo ==
    /\ \E token \in Tokens, dbUp \in BOOLEAN :
         LET w == AdminAuthMiddleware(rootPath \o <<"admin", "v1", "user", "info">>, token)
         IN  web' = IF w.handler = "none" THEN w ELSE CtrlGetUserInfo(w, dbUp)
    /\ UNCHANGED db
    /\ UNCHANGED captchaVars

\* ANY /api/mall/customer/user/info
CustomerUserInfo ==
    /\ \E token \in Tokens, dbUp \in BOOLEAN :
         LET w == AuthMiddleware(rootPath \o <<"customer", "user", "info">>, token)
         IN  web' = IF w.handler = "none" THEN w ELSE CtrlGetUserInfo(w, dbUp)
    /\ UNCHANGED db
    /\ UNCHANGED captchaVars

\* POST /api/mall/admin/v1/user/create: Ctrl.CreateUser, Service.CreateUser and
\* repo CreateUser; the new row gets the next id of the table
AdminCreateUser ==
    /\ \E token \in Tokens, bind \in BOOLEAN, name \in Names, dbUp \in BOOLEAN :
         LET w    == AdminAuthMiddleware(rootPath \o <<"admin", "v1", "user", "create">>, token)
             user == GetAdminUserFromCtx(w)
         IN  IF w.handler = "none" THEN web' = w /\ db' = db
             ELSE IF user = <<>>
                  THEN web' = WriteResp(w, "CreateUser", NoData, AuthErr) /\ db' = db
             ELSE IF ~bind
                  THEN web' = WriteResp(w, "CreateUser", NoData, ParamErr) /\ db' = db
             ELSE IF ~dbUp
                  THEN web' = WriteResp(w, "CreateUser", NoData, DatabaseErr) /\ db' = db
             ELSE /\ Len(db) < MaxUsers
                  /\ db' = Append(db, name)
                  /\ web' = WriteResp(w, "CreateUser", [UserID |-> Len(db) + 1, Name |-> ""], OK)
    /\ UNCHANGED captchaVars

\* POST /api/mall/admin/v1/user/update: Ctrl.UpdateUser, Service.UpdateUser and
\* repo UpdateUser; Updates(struct) skips the zero-valued Name and updating no
\* row is not an error
AdminUpdateUser ==
    /\ \E token \in Tokens, bind \in BOOLEAN, id \in 1..MaxUsers, name \in Names \cup {""},
          dbUp \in BOOLEAN :
         LET w    == AdminAuthMiddleware(rootPath \o <<"admin", "v1", "user", "update">>, token)
             user == GetAdminUserFromCtx(w)
         IN  IF w.handler = "none" THEN web' = w /\ db' = db
             ELSE IF user = <<>>
                  THEN web' = WriteResp(w, "UpdateUser", NoData, AuthErr) /\ db' = db
             ELSE IF ~bind
                  THEN web' = WriteResp(w, "UpdateUser", NoData, ParamErr) /\ db' = db
             ELSE IF ~dbUp
                  THEN web' = WriteResp(w, "UpdateUser", NoData, DatabaseErr) /\ db' = db
             ELSE /\ db' = IF id \in 1..Len(db) /\ name # "" THEN [db EXCEPT ![id] = name] ELSE db
                  /\ web' = WriteResp(w, "UpdateUser", NoData, OK)
    /\ UNCHANGED captchaVars

Next ==
    \/ GetSlideCaptcha(MaxIds)
    \/ CheckSlideCaptcha_Get(CallerKeys)
    \/ CheckSlideCaptcha_Del(MaxIds)
    \/ CheckSlideCaptcha_Set(MaxIds)
    \/ GetCaptchaTicket_Get
    \/ GetCaptchaTicket_Del
    \/ Tick

Spec == Init /\ [][Next]_vars

\* the same steps with at most NumProcsLive requests in service, and time that
\* keeps advancing: Redis counts down the ttl of every stored record whatever
\* the callers do
Admitted == BagCardinality(inflight') <= NumProcsLive

NextLive ==
    \/ GetSlideCaptcha(MaxIds)
    \/ CheckSlideCaptcha_Get(CallerKeys) /\ Admitted
    \/ CheckSlideCaptcha_Del(MaxIds)
    \/ CheckSlideCaptcha_Set(MaxIds)
    \/ GetCaptchaTicket_Get /\ Admitted
    \/ GetCaptchaTicket_Del
    \/ Tick

SpecLive == Init /\ [][NextLive]_vars /\ WF_vars(Tick)

\* the issue and verify endpoints alone, called within one minute
NextVerify ==
    \/ GetSlideCaptcha(MaxIdsVerify)
    \/ CheckSlideCaptcha_Get(KeysOf(AllIds))
    \/ CheckSlideCaptcha_Del(MaxIdsVerify)
    \/ CheckSlideCaptcha_Set(MaxIdsVerify)

SpecVerify == Init /\ [][NextVerify]_vars

\* the user routes of the admin and customer groups
NextUser ==
    \/ AdminGetCaptcha
    \/ AdminCheckCaptcha
    \/ AdminUserInfo
    \/ CustomerUserInfo
    \/ AdminCreateUser
    \/ AdminUpdateUser

SpecUser == Init /\ [][NextUser]_vars

\* ====================================================================
\* Properties
\* ====================================================================
\* Redis keys of the ticket namespace: <ServerFullName>:captcha:ticket:...
IsTicketKey(k) == Len(k) >= 4 /\ k[3] = "ticket"
TicketKeys == {k \in RedisKeys : IsTicketKey(k)}

\* C1 (anti-replay of verification): a CheckSlideCaptcha for a challenge id that
\* begins after a CheckSlideCaptcha that read that challenge has returned, and
\* that the store answers, fails with the expired/consumed outcome
\* (ParamErr "expired") and returns no ticket.
C1_AntiReplay ==
    (lastRet.op = "check" /\ lastRet.after /\ lastRet.st # "down")
        => (lastRet.errno = ParamErr /\ lastRet.out = EmptyString)

\* C2 (tolerance matching): a CheckSlideCaptcha that read a live challenge and
\* whose Redis commands were all answered succeeds if and only if the submitted
\* point is within 5 of the stored solution on both axes.
C2_Tolerance ==
    (lastRet.op = "check" /\ lastRet.dx >= 0 /\ lastRet.st = "ok")
        => ((lastRet.errno = OK) <=> (lastRet.dx <= 5 /\ lastRet.dy <= 5))

\* C2 witness: a submission at distance exactly 5 on both axes was accepted.
C2_Witness ==
    lastRet.op = "check" /\ lastRet.errno = OK /\ lastRet.dx = 5 /\ lastRet.dy = 5

\* C3 (destructive read of challenges): no GetCaptchaKey that begins after a
\* call that returned the stored value of the same challenge id has completed
\* obtains the stored value again.
C3_DestructiveRead ==
    \A r \in Requests : r.pc = "chk_del" => ~r.after

\* C4 (single redemption of tickets): no GetCaptchaTicket that begins after a
\* GetCaptchaTicket of the same ticket id has returned the bound challenge id
\* obtains the value again.
C4_SingleRedemption ==
    \A r \in Requests : r.pc = "tk_del" => ~r.after

\* C5 (at-most-once under concurrency, challenges): two GetCaptchaKey calls in
\* flight on the same challenge id never both hold the stored solution.
C5_OneObserver ==
    \A r, q \in Requests :
        (r.pc = "chk_del" /\ q.pc = "chk_del" /\ r.key = q.key)
            => (r = q /\ CopiesIn(r, inflight) = 1)

\* C6 (at-most-once under concurrency, tickets): two GetCaptchaTicket calls in
\* flight on the same ticket id never both hold the bound challenge id.
C6_OneRedeemer ==
    \A r, q \in Requests :
        (r.pc = "tk_del" /\ q.pc = "tk_del" /\ r.key = q.key)
            => (r = q /\ CopiesIn(r, inflight) = 1)

\* C7 (tickets come only from successful verification): whenever a record appears
\* under a ticket key, the step is the last step of a CheckSlideCaptcha that read
\* a live challenge, whose submitted point is within 5 of the solution on both
\* axes, that answers OK with that ticket id and binds the ticket to its request
\* key; a CheckSlideCaptcha that answers a failure returns no ticket id.
C7_Step ==
    /\ store' = store \/ \A k \in TicketKeys :
          (RedisHas(store', k)
             /\ (~RedisHas(store, k) \/ RedisGet(store', k).val # RedisGet(store, k).val))
            => \E r \in Requests :
                 /\ r.pc = "chk_set" /\ inflight' = inflight (-) One(r)
                 /\ UnmarshalOk(r.got)
                 /\ Abs(r.sx - r.got.x) <= 5
                 /\ Abs(r.sy - r.got.y) <= 5
                 /\ lastRet'.op = "check" /\ lastRet'.errno = OK
                 /\ lastRet'.out.toks # <<>>
                 /\ k = <<ServerFullName, "captcha", "ticket">> \o lastRet'.out.toks
                 /\ RedisGet(store', k).val = Text(r.key)
    /\ (lastRet'.op = "check" /\ lastRet'.errno # OK) => lastRet'.out = EmptyString
C7_TicketsOnlyFromSuccess == [][C7_Step]_vars

\* C7 witness: a CheckSlideCaptcha has just answered OK and its ticket record is
\* in the store.
C7_Witness ==
    /\ lastRet.op = "check" /\ lastRet.errno = OK
    /\ RedisHas(store, <<ServerFullName, "captcha", "ticket">> \o lastRet.out.toks)

\* C8 (ticket binding round trip): the first GetCaptchaTicket for a ticket
\* returned by CheckSlideCaptcha, started before 5 minutes have passed and
\* answered by the store, is not answered "not found"; and a GetCaptchaTicket
\* that returns a value returns the key of the request the ticket was minted for.
C8_RoundTrip ==
    /\ (lastRet.op = "redeem" /\ lastRet.owed) => lastRet.st # "nil"
    /\ (lastRet.op = "redeem" /\ lastRet.errno = OK)
          => \A m \in minted : m.t = lastRet.key => lastRet.out = Text(m.c)

\* C9 (TTL expiry): no record under a challenge key is retrievable once it has
\* been stored for 2 minutes, and no record under a ticket key once it has been
\* stored for 5 minutes.
C9_TTLExpiry ==
    \A k \in RedisKeys :
        RedisHas(store, k) => IF IsTicketKey(k) THEN RedisGet(store, k).age < 5
                                                     ELSE RedisGet(store, k).age < 2

\* C9 witness: Redis has just expired a challenge record that no command deleted.
C9_Witness ==
    lastRet.op = "expire" /\ ~IsTicketKey(lastRet.key) /\ ~RedisHas(store, lastRet.key)

\* C10 (typed outcome for an absent challenge): a CheckSlideCaptcha whose GET the
\* store answers with "no such key" fails with the expired/consumed outcome
\* (ParamErr), not with the store-failure outcome (RedisErr).
C10_AbsentIsTyped ==
    (lastRet.op = "check" /\ lastRet.st = "nil")
        => (lastRet.errno = ParamErr /\ lastRet.errno # RedisErr)
\* C11 (mismatch outcome): a CheckSlideCaptcha that read a live challenge and
\* whose submitted point is more than 5 from the solution on some axis answers
\* InvalidCaptchaErr, and when it returns the challenge record of its key is
\* absent from the store.
C11_MismatchConsumes ==
    (lastRet.op = "check" /\ lastRet.dx >= 0 /\ (lastRet.dx > 5 \/ lastRet.dy > 5))
        => /\ lastRet.errno = InvalidCaptchaErr
           /\ ~RedisHas(store, fmtVerifyCaptchaKey(lastRet.key))
\* C12 (no partial state on failed issuance): a GetSlideCaptcha that answers a
\* failure leaves every record of the store as it was, adds none, and returns
\* no challenge id.
C12_Step ==
    (lastRet'.op = "issue" /\ lastRet'.errno # OK)
        => /\ \A k \in RedisKeys : RedisGet(store', k) = RedisGet(store, k)
           /\ lastRet'.key = <<>>
           /\ lastRet'.out = EmptyString
C12_NoPartialState == [][C12_Step]_vars

\* C12 witness: a GetSlideCaptcha has just failed at the store write while the
\* record of an earlier challenge is in the store.
C12_Witness ==
    /\ lastRet.op = "issue" /\ lastRet.errno = RedisErr
    /\ \E i \in Ids : RedisHas(store, fmtVerifyCaptchaKey(<<i>>))
\* C13 (namespace separation): a key of the store holds a ticket binding exactly
\* when it is a key of the ticket namespace, a GetCaptchaKey never obtains (and
\* then deletes) a record that SetCaptchaTicket wrote, and a GetCaptchaTicket
\* never obtains a record that SetCaptchaKey wrote.
C13_NamespaceSeparation ==
    /\ \A k \in RedisKeys :
          RedisHas(store, k) => (IsTicketKey(k) <=> ~UnmarshalOk(RedisGet(store, k).val))
    /\ \A r \in Requests :
          /\ r.pc = "chk_del" => UnmarshalOk(r.got)
          /\ r.pc = "tk_del"  => ~UnmarshalOk(r.got)
\* C14 (independence of ids): a step of a request changes or removes a stored
\* record only if the request is a CheckSlideCaptcha on the challenge id the
\* record was stored for, or a GetCaptchaTicket on the ticket id it was stored
\* for; the records of every other id are left as they are.
C14_Step ==
    \A i \in AllIds :
        LET ck == fmtVerifyCaptchaKey(<<i>>)
            tk == fmtVerifyCaptchaTicket(<<i>>)
            ends(pc) == \E q \in Requests :
                           /\ q.pc = pc /\ q.key = <<i>>
                           /\ CopiesIn(q, inflight') < CopiesIn(q, inflight)
        IN  inflight' # inflight =>
              /\ (RedisHas(store, ck) /\ RedisGet(store', ck) # RedisGet(store, ck)) => ends("chk_del")
              /\ (RedisHas(store, tk) /\ RedisGet(store', tk) # RedisGet(store, tk)) => ends("tk_del")
C14_Independence == [][C14_Step]_vars
\* C15 (expiry hints): when GetSlideCaptcha answers OK the challenge record is
\* stored with a TTL of 120 seconds and the hint it returns is at most 120; when
\* CheckSlideCaptcha answers OK the ticket record is stored with a TTL of 300
\* seconds and the hint it returns is at most 300.
C15_HintsWithinTTL ==
    /\ (lastRet.op = "issue" /\ lastRet.errno = OK)
          => LET rec == RedisGet(store, fmtVerifyCaptchaKey(lastRet.out.toks))
             IN  rec.ttl * 60 = 120 /\ lastRet.expire <= rec.ttl * 60
    /\ (lastRet.op = "check" /\ lastRet.errno = OK)
          => LET rec == RedisGet(store, fmtVerifyCaptchaTicket(lastRet.out.toks))
             IN  rec.ttl * 60 = 300 /\ lastRet.expire <= rec.ttl * 60

\* C15 witness: a CheckSlideCaptcha has just returned a ticket with the hint 280
\* and the ticket record carries its TTL.
C15_Witness ==
    /\ lastRet.op = "check" /\ lastRet.errno = OK /\ lastRet.expire = 280
    /\ RedisGet(store, fmtVerifyCaptchaTicket(lastRet.out.toks)).ttl = TicketTTL
C18_DeleteApplied ==
    /\ (lastRet.op = "redeem" /\ lastRet.errno = OK)
          => ~RedisHas(store, fmtVerifyCaptchaTicket(lastRet.key))
    /\ (lastRet.op = "check" /\ lastRet.key # <<>>)
          => ~RedisHas(store, fmtVerifyCaptchaKey(lastRet.key))
    /\ \A r \in Requests :
          r.pc = "chk_set" => ~RedisHas(store, fmtVerifyCaptchaKey(r.key))
\* C19 (at most one ticket per challenge): no two tickets that CheckSlideCaptcha
\* has created are bound to the same request key.
C19_OneTicketPerChallenge ==
    \A m1, m2 \in minted : m1.c = m2.c => m1.t = m2.t
\* the lifecycle positions of a generated id c, read from the store: ISSUED when
\* its challenge record is stored, SOLVED when a stored ticket is bound to it;
\* a verification of c is under way between the GET and the ticket write
Issued(s, c) == RedisHas(s, fmtVerifyCaptchaKey(<<c>>))
Solved(s, c) == \E k \in TicketKeys : RedisHas(s, k) /\ RedisGet(s, k).val = Text(<<c>>)
Verifying(b, c) == \E r \in BagToSet(b) : r.key = <<c>> /\ r.pc \in {"chk_del", "chk_set"}

\* C20 (lifecycle invariant): no id has a stored challenge record and a stored
\* ticket bound to it at the same time; an id whose challenge record is absent
\* never has one again, and an id with no record of either kind and no
\* verification under way never has a ticket bound to it again.
C20_Step ==
    \A i \in 1..nIds :
        LET c == UUIDHex(i)
        IN  /\ ~(Issued(store', c) /\ Solved(store', c))
            /\ ~Issued(store, c) => ~Issued(store', c)
            /\ (~Issued(store, c) /\ ~Solved(store, c) /\ ~Verifying(inflight, c))
                  => ~Solved(store', c)
C20_Lifecycle == [][C20_Step]_vars
\* C21 (ticket write failure): a CheckSlideCaptcha whose submitted point matches
\* and whose ticket write fails answers RedisErr with no ticket id, leaves the
\* challenge record absent, writes nothing and ends without a second write; a
\* CheckSlideCaptcha that answers a ticket id leaves a record under that
\* ticket's key in the store.
C21_Step ==
    /\ (lastRet'.op = "check" /\ lastRet'.st = "down"
          /\ lastRet'.dx \in 0..5 /\ lastRet'.dy \in 0..5)
          => /\ lastRet'.errno = RedisErr
             /\ lastRet'.out = EmptyString
             /\ ~RedisHas(store', fmtVerifyCaptchaKey(lastRet'.key))
             /\ store' = store
             /\ BagCardinality(inflight') = BagCardinality(inflight) - 1
    /\ (lastRet'.op = "check" /\ lastRet'.errno = OK)
          => RedisHas(store', fmtVerifyCaptchaTicket(lastRet'.out.toks))
C21_TicketWriteFailure == [][C21_Step]_vars
\* C22 (every record is eventually gone): when time keeps advancing, a record
\* stored under any challenge key or ticket key is eventually absent from the
\* store: at every moment, each key is absent then or at some later moment.
C22_EventuallyGone ==
    \A k \in RedisKeys : []<>(~RedisHas(store, k))

\* C22 witness: a ticket that nobody redeemed has just been expired by Redis and
\* the store holds no record any more.
C22_Witness ==
    /\ lastRet.op = "expire" /\ IsTicketKey(lastRet.key)
    /\ DOMAIN store = {}
    /\ nIds > 0
\* the paths of the admin group, root prefix removed
IsAdminPath(p) == Len(p) >= 1 /\ p[1] = "admin"
CaptchaPaths == { <<"admin", "v1", "user", "verify", "captcha">>,
                  <<"admin", "v1", "user", "verify", "captcha", "check">> }
UserPaths    == { <<"admin", "v1", "user", "info">>, <<"admin", "v1", "user", "create">>,
                  <<"admin", "v1", "user", "update">> }

\* C23 (admin authentication gating): on a request under /api/mall/admin the
\* handler runs with no admin user in the context only if the path without the
\* root prefix is in AdminAuthWhiteList; on any other path the handler runs only
\* with a non-empty token and the admin user stored in the context, and without
\* them the request is aborted with 401 and no handler runs.  The captcha issue
\* and check handlers run without a token; user create, update and info do not.
C23_AdminGating ==
    LET p   == Replace1(web.path, rootPath)
        ran == web.handler # "none"
    IN  (web.path # <<>> /\ IsAdminPath(p)) =>
          /\ (ran /\ web.admin = <<>>) => p \in AdminAuthWhiteList
          /\ p \notin AdminAuthWhiteList =>
                /\ ran => (web.token # "" /\ web.admin # <<>>)
                /\ ~ran => (web.status = StatusUnauthorized /\ web.code = AuthErr)
                /\ ran \/ web.token = ""
          /\ p \in CaptchaPaths => ran
          /\ (p \in UserPaths /\ web.token = "") => ~ran

\* C23 witness: the captcha check handler has been reached by a request that
\* carries no token and has no admin user in its context.
C23_Witness ==
    /\ web.path = rootPath \o <<"admin", "v1", "user", "verify", "captcha", "check">>
    /\ web.token = "" /\ web.admin = <<>>
    /\ web.handler = "CheckSmsCodeCaptcha"
\* C24 (customer user-info route): a request to /api/mall/customer/user/info
\* whose non-empty token the customer middleware accepted, so that the customer
\* user is in the context, reaches the user-info service (a row of admin_user
\* is looked up) and is not answered AuthErr by the handler.
C24_CustomerInfoServed ==
    (/\ web.path = rootPath \o <<"customer", "user", "info">>
     /\ web.token # ""
     /\ web.customer # <<>>)
        => /\ web.handler = "GetUserInfo"
           /\ web.code # AuthErr
           /\ web.lookup # 0
====
